---- MODULE Spec2Model ----
(***************************************************************************)
(* Model of the ingestion pipeline of the Fogo companion: the chunk store  *)
(* (vectorstore.py), the ingestion coordinator (ingest.py) and the parts   *)
(* of utils.py they call.                                                  *)
(***************************************************************************)
EXTENDS Integers, Sequences, FiniteSets, Bags, TLC

VARIABLES
    dirExists,   \* docs_dir exists on the filesystem
    files,       \* file path -> content class, or Absent
    metadata,    \* VectorStore.metadata, the in-memory record list
    blob,        \* meta.pkl on disk: [state, data]
    op,          \* the operation that produced this state
    added,       \* first component of the last sync's return value
    removed,     \* second component of the last sync's return value
    saves,       \* number of VectorStore.save() calls made by the last operation
    metadata0,   \* metadata when the last operation started
    blob0,       \* blob when the last operation started
    syncRun,     \* consecutive syncs since the directory last changed (capped at 2)
    arg,         \* argument of the last direct store call
    pc,          \* position of the process that owns the store
    chunkRecords, \* metadata_list handed to build_context_for_query
    question,    \* user_question handed to build_context_for_query
    projectArg,  \* project handed to build_context_for_query
    blocks,      \* list returned by build_context_for_query
    db,          \* documents table: file path -> content class, or Absent
    request,     \* the last /send_message request and what went wrong inside it
    response,    \* the reply of the last /send_message request
    trace,       \* the calls the last /send_message request reached, in order
    rawText,     \* text handed to chunk_text
    chunk_size,  \* chunk_size handed to chunk_text
    overlap,     \* overlap handed to chunk_text
    start,       \* start, the loop variable of chunk_text
    windows,     \* [start, end] of every iteration chunk_text has made
    chunkList,   \* chunks, the list chunk_text builds and returns
    cpc,         \* position of the call of chunk_text: idle, loop or done
    thr          \* request thread -> its position and locals inside auto_ingest_if_empty

\* variables of the store life cycle, the reconciliation engine and the
\* request handler
chunkerVars == <<rawText, chunk_size, overlap, start, windows, chunkList, cpc>>

otherVars == <<pc, chunkRecords, question, projectArg, blocks, db, request, response, trace,
               chunkerVars, thr>>

vars == <<dirExists, files, metadata, blob, op, added, removed, saves,
          metadata0, blob0, syncRun, arg, otherVars>>

----------------------------------------------------------------------------
(* Bounds of the model *)

\* longest record list a step may produce
MaxRecords == 5

----------------------------------------------------------------------------
(* The directory: paths, names and content classes *)

Absent == "absent"

Root == <<"docs">>
SubDir == <<"docs", "sub">>

Files == {"docs/Guide.pdf", "docs/Fo_T.txt", "docs/sub/fo-faq.md", "docs/run.log"}

\* directory holding each file (Path(file).parent)
FileDir ==
    [f \in Files |->
        CASE f = "docs/Guide.pdf" -> Root
          [] f = "docs/Fo_T.txt" -> Root
          [] f = "docs/sub/fo-faq.md" -> SubDir
          [] f = "docs/run.log" -> Root]

\* file name (Path(file).name), character by character
FileName ==
    [f \in Files |->
        CASE f = "docs/Guide.pdf" -> <<"G", "u", "i", "d", "e", ".", "p", "d", "f">>
          [] f = "docs/Fo_T.txt" -> <<"F", "o", "_", "T", ".", "t", "x", "t">>
          [] f = "docs/sub/fo-faq.md" -> <<"f", "o", "-", "f", "a", "q", ".", "m", "d">>
          [] f = "docs/run.log" -> <<"r", "u", "n", ".", "l", "o", "g">>]

\* the order in which the filesystem lists files of one pattern
ScanOrder == <<"docs/Fo_T.txt", "docs/run.log", "docs/Guide.pdf", "docs/sub/fo-faq.md">>

RECURSIVE LastIndexOf(_, _, _)
LastIndexOf(s, ch, i) ==
    IF i = 0 THEN 0
    ELSE IF s[i] = ch THEN i ELSE LastIndexOf(s, ch, i - 1)

\* extension of a file name, without the dot
ExtOf(name) ==
    LET d == LastIndexOf(name, ".", Len(name))
    IN  IF d <= 1 THEN <<>> ELSE SubSeq(name, d + 1, Len(name))

SupportedExts == << <<"p", "d", "f">>, <<"d", "o", "c", "x">>, <<"t", "x", "t">>, <<"m", "d">> >>

IsPrefix(p, s) == Len(p) <= Len(s) /\ SubSeq(s, 1, Len(p)) = p

\* content classes a file can be in
GoodContents == {"v1", "v2"}
ContentsOf(f) ==
    CASE ExtOf(FileName[f]) = <<"p", "d", "f">> ->
            GoodContents \cup {"blank", "corrupt", "unreadable"}
      [] ExtOf(FileName[f]) = <<"l", "o", "g">> -> {"v1"}
      [] OTHER -> GoodContents \cup {"blank", "unreadable"}

\* chunk_text applied to the extracted text of each readable content class
ChunksOf ==
    [c \in GoodContents \cup {"blank"} |->
        CASE c = "v1" -> <<"v1#0">>
          [] c = "v2" -> <<"v2#0", "v2#1">>
          [] c = "blank" -> <<>>]

----------------------------------------------------------------------------
(* utils.py *)

\* SHA-256 of the file's bytes: one digest per content class
DigestOf ==
    [c \in GoodContents \cup {"blank", "corrupt"} |->
        CASE c = "v1" -> "h1"
          [] c = "v2" -> "h2"
          [] c = "blank" -> "h0"
          [] c = "corrupt" -> "hx"]

\* compute_file_hash: open() raises on an unreadable file
compute_file_hash(c) ==
    IF c = "unreadable"
    THEN [raised |-> TRUE, value |-> "none"]
    ELSE [raised |-> FALSE, value |-> DigestOf[c]]

\* load_and_split_docs: any extraction error is re-raised as RuntimeError,
\* whitespace-only text gives no chunks, other text goes through chunk_text
load_and_split_docs(c) ==
    IF c \in {"unreadable", "corrupt"}
    THEN [raised |-> TRUE, value |-> <<>>]
    ELSE [raised |-> FALSE, value |-> ChunksOf[c]]

----------------------------------------------------------------------------
(* ingest.py: _extract_project_tag *)

UpperToLower == [ch \in {"F", "G", "T"} |->
                    CASE ch = "F" -> "f" [] ch = "G" -> "g" [] ch = "T" -> "t"]

Lower(s) == [i \in 1..Len(s) |-> IF s[i] \in DOMAIN UpperToLower THEN UpperToLower[s[i]] ELSE s[i]]

\* Path(filename).stem
StemOf(name) ==
    LET d == LastIndexOf(name, ".", Len(name))
    IN  IF d <= 1 THEN name ELSE SubSeq(name, 1, d - 1)

Separators == {"_", " ", "-"}

RECURSIVE FirstSeparator(_, _)
FirstSeparator(s, i) ==
    IF i > Len(s) THEN 0
    ELSE IF s[i] \in Separators THEN i ELSE FirstSeparator(s, i + 1)

\* re.split(r'[_ -]', name)[0]
FirstPart(s) ==
    LET k == FirstSeparator(s, 1)
    IN  IF k = 0 THEN s ELSE SubSeq(s, 1, k - 1)

Whitespace == {" ", "\t", "\n", "\r"}

RECURSIVE LStrip(_)
LStrip(s) == IF s # <<>> /\ Head(s) \in Whitespace THEN LStrip(Tail(s)) ELSE s

RECURSIVE RStrip(_)
RStrip(s) ==
    IF s # <<>> /\ s[Len(s)] \in Whitespace THEN RStrip(SubSeq(s, 1, Len(s) - 1)) ELSE s

_extract_project_tag(name) == RStrip(LStrip(FirstPart(Lower(StemOf(name)))))

----------------------------------------------------------------------------
(* vectorstore.py: the store object is [metadata, blob, saves] *)

Store(md, b, n) == [metadata |-> md, blob |-> b, saves |-> n]

index_is_empty(st) == Len(st.metadata) = 0

\* save: the whole record list is pickled over meta.pkl
save(st) ==
    [st EXCEPT !.blob = [state |-> "ok", data |-> st.metadata], !.saves = @ + 1]

\* variant: the extended list is not written back
add_texts_NoSave(st, texts, metadatas) ==
    IF texts = <<>> THEN st
    ELSE [st EXCEPT !.metadata = @ \o metadatas]

add_texts(st, texts, metadatas) ==
    IF texts = <<>> THEN st
    ELSE save([st EXCEPT !.metadata = @ \o metadatas])

\* sources of a list, as the set() built from it
SetOf(seq) == {seq[i] : i \in 1..Len(seq)}

\* variant: only the first listed source is matched
remove_by_sources_FirstOnly(st, sources_to_remove) ==
    IF sources_to_remove = <<>> \/ st.metadata = <<>> THEN st
    ELSE save([st EXCEPT !.metadata =
                  SelectSeq(@, LAMBDA m : m.source # Head(sources_to_remove))])

remove_by_sources(st, sources_to_remove) ==
    IF sources_to_remove = <<>> \/ st.metadata = <<>> THEN st
    ELSE LET gone == SetOf(sources_to_remove)
         IN  save([st EXCEPT !.metadata = SelectSeq(@, LAMBDA m : m.source \notin gone)])

----------------------------------------------------------------------------
(* ingest.py *)

\* docs_path.rglob("*." + ext): the present files below a directory with
\* that extension, in listing order
rglob(dir, ext, fs) ==
    SelectSeq(ScanOrder, LAMBDA f : /\ fs[f] # Absent
                                    /\ IsPrefix(dir, FileDir[f])
                                    /\ ExtOf(FileName[f]) = ext)

RECURSIVE AllSupported(_, _, _)
\* the loop "for ext in supported_exts: all_files.extend(rglob(ext))"
AllSupported(dir, fs, i) ==
    IF i > Len(SupportedExts) THEN <<>>
    ELSE rglob(dir, SupportedExts[i], fs) \o AllSupported(dir, fs, i + 1)

all_files(dir, fs) == AllSupported(dir, fs, 1)

\* a directory exists when docs_dir does and, below it, when it holds a file
PathExists(dir, exists, fs) ==
    /\ exists
    /\ dir = Root \/ \E f \in Files : fs[f] # Absent /\ IsPrefix(dir, FileDir[f])

\* the metadata list ingest_directory builds for one file
MetadatasOf(f, chunks, file_hash) ==
    [i \in 1..Len(chunks) |->
        [source |-> f, file_hash |-> file_hash, text |-> chunks[i],
         project |-> _extract_project_tag(FileName[f])]]

\* one iteration of the loop of ingest_directory, with its try/except
IngestFile(st, f, fs) ==
    LET loaded == load_and_split_docs(fs[f])
        hashed == compute_file_hash(fs[f])
    IN  IF loaded.raised THEN st
        ELSE IF loaded.value = <<>> THEN st
        ELSE IF hashed.raised THEN st
        ELSE add_texts(st, loaded.value, MetadatasOf(f, loaded.value, hashed.value))

RECURSIVE IngestFiles(_, _, _)
IngestFiles(st, todo, fs) ==
    IF todo = <<>> THEN st
    ELSE IngestFiles(IngestFile(st, Head(todo), fs), Tail(todo), fs)

\* ingest_directory: [raised, st]
ingest_directory(dir, st, rebuild, exists, fs) ==
    IF ~PathExists(dir, exists, fs) THEN [raised |-> TRUE, st |-> st]
    ELSE LET found == all_files(dir, fs)
             cleared == IF rebuild THEN save([st EXCEPT !.metadata = <<>>]) ELSE st
         IN  IF found = <<>> THEN [raised |-> FALSE, st |-> st]
             ELSE [raised |-> FALSE, st |-> IngestFiles(cleared, found, fs)]

RECURSIVE DictKeys(_, _)
\* keys of {m["source"]: ... for m in metadata}, in insertion order
DictKeys(md, seen) ==
    IF md = <<>> THEN <<>>
    ELSE IF Head(md).source \in seen THEN DictKeys(Tail(md), seen)
    ELSE <<Head(md).source>> \o DictKeys(Tail(md), seen \cup {Head(md).source})

RECURSIVE LastHash(_, _, _)
\* value the dict keeps for one key: the file_hash of its last record
LastHash(md, src, i) ==
    IF i = 0 THEN "none"
    ELSE IF md[i].source = src THEN md[i].file_hash ELSE LastHash(md, src, i - 1)

\* existing_sources = {m.get("source"): m.get("file_hash") for m in metadata}
existing_sources(md) ==
    [keys |-> DictKeys(md, {}),
     hash |-> [src \in {md[i].source : i \in 1..Len(md)} |-> LastHash(md, src, Len(md))]]

\* current_files: [raised, keys, hash]; hashing an unreadable file raises
current_files(fs) ==
    LET found == all_files(Root, fs)
    IN  IF \E i \in 1..Len(found) : compute_file_hash(fs[found[i]]).raised
        THEN [raised |-> TRUE, keys |-> <<>>, hash |-> <<>>]
        ELSE [raised |-> FALSE, keys |-> found,
              hash |-> [f \in SetOf(found) |-> compute_file_hash(fs[f]).value]]

\* the loop over added_files: [raised, st]
RECURSIVE UpdateAdded(_, _, _, _)
UpdateAdded(st, todo, exists, fs) ==
    IF todo = <<>> THEN [raised |-> FALSE, st |-> st]
    ELSE LET f == Head(todo)
             cleaned == remove_by_sources(st, <<f>>)
             r == ingest_directory(FileDir[f], cleaned, FALSE, exists, fs)
         IN  IF r.raised THEN r
             ELSE UpdateAdded(r.st, Tail(todo), exists, fs)

\* variant: the store is saved at the end of every pass
IncrementalSync_AlwaysSave(st, exists, fs) ==
    LET old == existing_sources(st.metadata)
        cur == current_files(fs)
        added_files ==
            SelectSeq(cur.keys, LAMBDA src : \/ src \notin DOMAIN old.hash
                                             \/ old.hash[src] # cur.hash[src])
        removed_files == SelectSeq(old.keys, LAMBDA src : src \notin SetOf(cur.keys))
        afterRemove == remove_by_sources(st, removed_files)
        afterAdd == UpdateAdded(afterRemove, added_files, exists, fs)
    IN  IF cur.raised THEN [st |-> st, added |-> <<>>, removed |-> <<>>]
        ELSE [st |-> save(afterAdd.st), added |-> added_files, removed |-> removed_files]

\* the incremental branch of auto_ingest_if_empty
IncrementalSync(st, exists, fs) ==
    LET old == existing_sources(st.metadata)
        cur == current_files(fs)
        added_files ==
            SelectSeq(cur.keys, LAMBDA src : \/ src \notin DOMAIN old.hash
                                             \/ old.hash[src] # cur.hash[src])
        removed_files == SelectSeq(old.keys, LAMBDA src : src \notin SetOf(cur.keys))
        afterRemove == remove_by_sources(st, removed_files)
        afterAdd == UpdateAdded(afterRemove, added_files, exists, fs)
    IN  IF cur.raised THEN [st |-> st, added |-> <<>>, removed |-> <<>>]
        ELSE [st |-> afterAdd.st, added |-> added_files, removed |-> removed_files]

\* variant: only the files that gave records are reported
FullRebuild_OnlyIngested(st, exists, fs) ==
    LET r == ingest_directory(Root, st, TRUE, exists, fs)
    IN  IF r.raised THEN [st |-> r.st, added |-> <<>>, removed |-> <<>>]
        ELSE [st |-> r.st,
              added |-> SelectSeq(all_files(Root, fs),
                                  LAMBDA f : \E i \in 1..Len(r.st.metadata) :
                                                r.st.metadata[i].source = f),
              removed |-> <<>>]

\* the full rebuild branch of auto_ingest_if_empty
FullRebuild(st, exists, fs) ==
    LET r == ingest_directory(Root, st, TRUE, exists, fs)
    IN  IF r.raised THEN [st |-> r.st, added |-> <<>>, removed |-> <<>>]
        ELSE [st |-> r.st, added |-> all_files(Root, fs), removed |-> <<>>]

\* variant: the existence of docs_dir is not checked
auto_ingest_if_empty_NoDirCheck(st, exists, fs) ==
    IF index_is_empty(st) THEN FullRebuild(st, exists, fs)
    ELSE IncrementalSync(st, exists, fs)

\* auto_ingest_if_empty: [st, added, removed]
auto_ingest_if_empty(st, exists, fs) ==
    IF ~exists THEN [st |-> st, added |-> <<>>, removed |-> <<>>]
    ELSE IF index_is_empty(st) THEN FullRebuild(st, exists, fs)
    ELSE IncrementalSync(st, exists, fs)

----------------------------------------------------------------------------
(* The state machine *)

MissingBlob == [state |-> "missing", data |-> <<>>]
CorruptBlob == [state |-> "corrupt", data |-> <<>>]

\* VectorStore.__init__ over a missing or an unloadable meta.pkl, docs_dir
\* present and empty
StoreAtStart ==
    /\ dirExists = TRUE
    /\ files = [f \in Files |-> Absent]
    /\ metadata = <<>>
    /\ blob \in {MissingBlob, CorruptBlob}
    /\ op = "init"
    /\ added = <<>>
    /\ removed = <<>>
    /\ saves = 0
    /\ metadata0 = <<>>
    /\ blob0 = blob
    /\ syncRun = 0
    /\ arg = <<>>
    /\ pc = "idle"

NoRequest == [project |-> "None", message |-> <<>>, api_key |-> <<>>, fault |-> "none"]
NoResponse == [status |-> 0, kind |-> "none", detail |-> "none"]

\* nothing was asked of the reconciliation engine yet
ReasonerAtStart ==
    /\ chunkRecords = <<>>
    /\ question = <<>>
    /\ projectArg = "None"
    /\ blocks = <<>>

\* no document was uploaded and no request was served yet
AppAtStart ==
    /\ db = [f \in Files |-> Absent]
    /\ request = NoRequest
    /\ response = NoResponse
    /\ trace = <<>>

\* chunk_text is not running
ChunkerAtStart ==
    /\ rawText = <<>>
    /\ chunk_size = 0
    /\ overlap = 0
    /\ start = 0
    /\ windows = <<>>
    /\ chunkList = <<>>
    /\ cpc = "idle"

\* the request threads of the server
Threads == {1, 2}

\* a thread outside auto_ingest_if_empty, with its locals: found is what is
\* left of all_files in ingest_directory, todo what is left of added_files,
\* gone is removed_files, conc tells that the other thread was inside the
\* sync when this one entered it
IdleThread == [pc |-> "idle", gone |-> <<>>, todo |-> <<>>, found |-> <<>>, conc |-> FALSE]

\* no request is being served
ThreadsAtStart == thr = [t \in Threads |-> IdleThread]

Init == StoreAtStart /\ ReasonerAtStart /\ AppAtStart /\ ChunkerAtStart /\ ThreadsAtStart

\* a step of the environment: the store is untouched
EnvStep(name) ==
    /\ op' = name
    /\ added' = <<>>
    /\ removed' = <<>>
    /\ saves' = 0
    /\ metadata0' = metadata
    /\ blob0' = blob
    /\ syncRun' = 0
    /\ arg' = <<>>
    /\ UNCHANGED <<metadata, blob, otherVars>>

\* a file is created or its content replaced
WriteFile(f, c) ==
    /\ dirExists
    /\ files[f] # c
    /\ files' = [files EXCEPT ![f] = c]
    /\ UNCHANGED dirExists
    /\ EnvStep("write")

\* a file is deleted
DeleteFile(f) ==
    /\ files[f] # Absent
    /\ files' = [files EXCEPT ![f] = Absent]
    /\ UNCHANGED dirExists
    /\ EnvStep("delete")

\* docs_dir is removed with everything below it
RemoveDocsDir ==
    /\ dirExists
    /\ dirExists' = FALSE
    /\ files' = [f \in Files |-> Absent]
    /\ EnvStep("rmdir")

\* docs_dir is created again
CreateDocsDir ==
    /\ ~dirExists
    /\ dirExists' = TRUE
    /\ UNCHANGED files
    /\ EnvStep("mkdir")

\* one call of auto_ingest_if_empty(docs_dir, vs)
Sync ==
    LET r == auto_ingest_if_empty(Store(metadata, blob, 0), dirExists, files)
    IN  /\ Len(r.st.metadata) <= MaxRecords
        /\ metadata' = r.st.metadata
        /\ blob' = r.st.blob
        /\ saves' = r.st.saves
        /\ added' = r.added
        /\ removed' = r.removed
        /\ metadata0' = metadata
        /\ blob0' = blob
        /\ op' = "sync"
        /\ syncRun' = IF syncRun < 2 THEN syncRun + 1 ELSE 2
        /\ arg' = <<>>
        /\ UNCHANGED <<dirExists, files, otherVars>>

Next ==
    \/ \E f \in Files : \E c \in ContentsOf(f) : WriteFile(f, c)
    \/ \E f \in Files : DeleteFile(f)
    \/ RemoveDocsDir
    \/ CreateDocsDir
    \/ Sync

Spec == Init /\ [][Next]_vars

----------------------------------------------------------------------------
(* The store driven directly through its methods *)

\* the paths ingestion can store records for
Ingestible ==
    {f \in Files : \E i \in 1..Len(SupportedExts) : ExtOf(FileName[f]) = SupportedExts[i]}

\* argument lists of remove_by_sources: none, one or two sources
SourceLists ==
    {<<>>} \cup {<<f>> : f \in Ingestible} \cup {<<f, g>> : f \in Ingestible, g \in Ingestible}

\* a direct call of VectorStore.add_texts with the records of one file
StoreAdd(f, c) ==
    LET chunks == ChunksOf[c]
        st == add_texts(Store(metadata, blob, 0), chunks, MetadatasOf(f, chunks, DigestOf[c]))
    IN  /\ Len(st.metadata) <= MaxRecords
        /\ metadata' = st.metadata
        /\ blob' = st.blob
        /\ saves' = st.saves
        /\ metadata0' = metadata
        /\ blob0' = blob
        /\ op' = "add"
        /\ arg' = MetadatasOf(f, chunks, DigestOf[c])
        /\ UNCHANGED <<dirExists, files, added, removed, syncRun, otherVars>>

\* a direct call of VectorStore.remove_by_sources
StoreRemove(S) ==
    LET st == remove_by_sources(Store(metadata, blob, 0), S)
    IN  /\ metadata' = st.metadata
        /\ blob' = st.blob
        /\ saves' = st.saves
        /\ metadata0' = metadata
        /\ blob0' = blob
        /\ op' = "remove"
        /\ arg' = S
        /\ UNCHANGED <<dirExists, files, added, removed, syncRun, otherVars>>

NextStore ==
    \/ \E f \in Ingestible : \E c \in GoodContents \cup {"blank"} : StoreAdd(f, c)
    \/ \E S \in SourceLists : StoreRemove(S)

SpecStore == Init /\ [][NextStore]_vars

----------------------------------------------------------------------------
(* The life cycle of the store: construction, stepwise save, crash *)

\* variant: _load without its try/except
VectorStore_load_NoCatch(b) ==
    IF b.state = "ok" THEN [raised |-> FALSE, metadata |-> b.data]
    ELSE [raised |-> TRUE, metadata |-> <<>>]

\* VectorStore._load: open() or pickle.load raising is caught and leaves []
VectorStore_load(b) ==
    IF b.state = "ok" THEN [raised |-> FALSE, metadata |-> b.data]
    ELSE [raised |-> FALSE, metadata |-> <<>>]

\* VectorStore.__init__: [raised, metadata]; CorruptBlob stands for every
\* meta.pkl that exists and cannot be loaded (damaged or unreadable)
VectorStore_init(b) ==
    IF b.state = "missing" THEN [raised |-> FALSE, metadata |-> <<>>]
    ELSE VectorStore_load(b)

\* variables the life-cycle steps never touch
lifeFrame == <<dirExists, files, added, removed, syncRun,
               chunkRecords, question, projectArg, blocks, db, request, response, trace,
               chunkerVars, thr>>

\* the in-memory half of a mutator; save() follows when the list changed
BeginMutation(name, a, st, mutated) ==
    /\ pc = "idle"
    /\ Len(st.metadata) <= MaxRecords
    /\ metadata' = st.metadata
    /\ pc' = IF mutated THEN "open" ELSE "idle"
    /\ op' = name
    /\ arg' = a
    /\ saves' = 0
    /\ metadata0' = metadata
    /\ blob0' = blob
    /\ UNCHANGED <<blob, lifeFrame>>

\* add_texts up to its call of save()
LifeAdd(f, c) ==
    LET chunks == ChunksOf[c]
        metas == MetadatasOf(f, chunks, DigestOf[c])
    IN  BeginMutation("add", metas,
                      IF chunks = <<>> THEN Store(metadata, blob, 0)
                      ELSE Store(metadata \o metas, blob, 0),
                      chunks # <<>>)

\* remove_by_sources up to its call of save()
LifeRemove(S) ==
    BeginMutation("remove", S,
                  IF S = <<>> \/ metadata = <<>> THEN Store(metadata, blob, 0)
                  ELSE Store(SelectSeq(metadata, LAMBDA m : m.source \notin SetOf(S)), blob, 0),
                  ~(S = <<>> \/ metadata = <<>>))

\* save, first half: open(meta_file, "wb") leaves an empty file
SaveOpen ==
    /\ pc = "open"
    /\ blob' = CorruptBlob
    /\ pc' = "dump"
    /\ UNCHANGED <<metadata, op, arg, saves, metadata0, blob0, lifeFrame>>

\* save, second half: pickle.dump writes the list and the file is closed
SaveDump ==
    /\ pc = "dump"
    /\ blob' = [state |-> "ok", data |-> metadata]
    /\ saves' = saves + 1
    /\ pc' = "idle"
    /\ UNCHANGED <<metadata, op, arg, metadata0, blob0, lifeFrame>>

\* the process dies: its memory is gone, the disk stays as it is
Crash ==
    /\ pc \in {"idle", "open", "dump"}
    /\ pc' = "down"
    /\ metadata' = <<>>
    /\ UNCHANGED <<blob, op, arg, saves, metadata0, blob0, lifeFrame>>

\* between two runs meta.pkl is lost or damaged
DamageBlob(b) ==
    /\ pc = "down"
    /\ blob # b
    /\ blob' = b
    /\ op' = "damage"
    /\ arg' = <<>>
    /\ saves' = 0
    /\ metadata0' = metadata
    /\ blob0' = b
    /\ UNCHANGED <<metadata, pc, lifeFrame>>

\* vs = VectorStore(str(VECTOR_DIR)) in a new process
Construct ==
    LET r == VectorStore_init(blob)
    IN  /\ pc = "down"
        /\ metadata' = r.metadata
        /\ pc' = IF r.raised THEN "failed" ELSE "idle"
        /\ op' = "construct"
        /\ arg' = <<>>
        /\ saves' = 0
        /\ metadata0' = metadata
        /\ blob0' = blob
        /\ UNCHANGED <<blob, lifeFrame>>

NextLife ==
    \/ \E f \in Ingestible : \E c \in GoodContents \cup {"blank"} : LifeAdd(f, c)
    \/ \E S \in SourceLists : LifeRemove(S)
    \/ SaveOpen
    \/ SaveDump
    \/ Crash
    \/ \E b \in {MissingBlob, CorruptBlob} : DamageBlob(b)
    \/ Construct

SpecLife == Init /\ [][NextLife]_vars

----------------------------------------------------------------------------
(* doc_reasoner.py: texts are character sequences over letters, blanks and
   line feeds; a score is kept as an integer, one thousand times the float of
   the code, which orders and ties the sources of the collections below
   exactly as the float does *)

MaxChunks == 3
MaxSnippet == 4

\* a pattern \bw1\s+w2...\b, or ^\s*w1\b when line is TRUE
WordPattern(ws) == [line |-> FALSE, words |-> ws]
LinePattern(ws) == [line |-> TRUE, words |-> ws]

\* the patterns that can match a text of the alphabet: ^\s*\d+\. , ^\s*-\s
\* and https?:// need a digit, a dash or a colon
STEP_PATTERNS == <<
    LinePattern(<< <<"s", "t", "e", "p">> >>),
    WordPattern(<< <<"h", "o", "w", " ", "t", "o">> >>),
    WordPattern(<< <<"i", "n", "s", "t", "r", "u", "c", "t", "i", "o", "n">> >>),
    WordPattern(<< <<"i", "n", "s", "t", "r", "u", "c", "t", "i", "o", "n", "s">> >>),
    WordPattern(<< <<"e", "x", "a", "m", "p", "l", "e">> >>),
    WordPattern(<< <<"c", "o", "m", "m", "a", "n", "d">> >>),
    WordPattern(<< <<"c", "u", "r", "l">> >>),
    WordPattern(<< <<"r", "p", "c">> >>),
    WordPattern(<< <<"e", "n", "d", "p", "o", "i", "n", "t">> >>),
    WordPattern(<< <<"f", "a", "u", "c", "e", "t">> >>),
    WordPattern(<< <<"g", "e", "t", "h">> >>),
    WordPattern(<< <<"s", "o", "l", "a", "n", "a">> >>),
    WordPattern(<< <<"t", "r", "a", "n", "s", "f", "e", "r">> >>),
    WordPattern(<< <<"w", "a", "l", "l", "e", "t">> >>) >>

POSITIVE_STATUS_PATTERNS == <<
    WordPattern(<< <<"i", "s">>, <<"l", "i", "v", "e">> >>),
    WordPattern(<< <<"i", "s">>, <<"l", "a", "u", "n", "c", "h", "e", "d">> >>),
    WordPattern(<< <<"i", "s">>, <<"a", "v", "a", "i", "l", "a", "b", "l", "e">> >>),
    WordPattern(<< <<"i", "s">>, <<"o", "p", "e", "n">> >>),
    WordPattern(<< <<"i", "s">>, <<"a", "c", "t", "i", "v", "e">> >>),
    WordPattern(<< <<"n", "o", "w">>, <<"l", "i", "v", "e">> >>),
    WordPattern(<< <<"g", "o">>, <<"l", "i", "v", "e">> >>),
    WordPattern(<< <<"p", "u", "b", "l", "i", "c">>, <<"m", "a", "i", "n", "n", "e", "t">> >>) >>

NEGATIVE_STATUS_PATTERNS == <<
    WordPattern(<< <<"n", "o", "t">>, <<"l", "i", "v", "e">> >>),
    WordPattern(<< <<"n", "o", "t">>, <<"y", "e", "t">> >>),
    WordPattern(<< <<"c", "o", "m", "i", "n", "g">>, <<"s", "o", "o", "n">> >>),
    WordPattern(<< <<"p", "l", "a", "n", "n", "e", "d">> >>),
    WordPattern(<< <<"p", "e", "r", "m", "i", "s", "s", "i", "o", "n", "e", "d">> >>),
    WordPattern(<< <<"p", "r", "i", "v", "a", "t", "e">> >>),
    WordPattern(<< <<"r", "e", "s", "t", "r", "i", "c", "t", "e", "d">> >>),
    WordPattern(<< <<"c", "l", "o", "s", "e", "d">> >>),
    WordPattern(<< <<"p", "a", "u", "s", "e", "d">> >>) >>

\* \w against the alphabet of the texts
IsWordChar(ch) == ch \notin Whitespace \cup {".", "-", "?", ":", "/"}

\* \b in front of position i
WordBoundary(t, i) ==
    LET before == i > 1 /\ IsWordChar(t[i - 1])
        after == i <= Len(t) /\ IsWordChar(t[i])
    IN  before # after

LiteralAt(w, t, i) ==
    /\ i + Len(w) - 1 <= Len(t)
    /\ \A k \in 1..Len(w) : t[i + k - 1] = w[k]

\* \s* from position i: the first position that holds no blank
RECURSIVE SkipSpace(_, _)
SkipSpace(t, i) ==
    IF i <= Len(t) /\ t[i] \in Whitespace THEN SkipSpace(t, i + 1) ELSE i

\* the position after the match of the words ws, the first at i; 0 for none
RECURSIVE WordsEnd(_, _, _)
WordsEnd(ws, t, i) ==
    IF ~LiteralAt(Head(ws), t, i) THEN 0
    ELSE LET e == i + Len(Head(ws))
         IN  IF Len(ws) = 1 THEN (IF WordBoundary(t, e) THEN e ELSE 0)
             ELSE IF SkipSpace(t, e) = e THEN 0
             ELSE WordsEnd(Tail(ws), t, SkipSpace(t, e))

\* the position after the match of pattern p that starts at i; 0 for none
MatchEnd(p, t, i) ==
    IF p.line
    THEN IF i = 1 \/ t[i - 1] = "\n" THEN WordsEnd(p.words, t, SkipSpace(t, i)) ELSE 0
    ELSE IF t[i] = p.words[1][1] /\ WordBoundary(t, i) THEN WordsEnd(p.words, t, i) ELSE 0

\* len(re.findall(p, t)): matches left to right, none overlapping
RECURSIVE FindAll(_, _, _)
FindAll(p, t, i) ==
    IF i > Len(t) THEN 0
    ELSE LET e == MatchEnd(p, t, i)
         IN  IF e = 0 THEN FindAll(p, t, i + 1) ELSE 1 + FindAll(p, t, e)

\* the sum over the patterns, from the k-th on
RECURSIVE CountFrom(_, _, _)
CountFrom(patterns, t, k) ==
    IF k > Len(patterns) THEN 0
    ELSE FindAll(patterns[k], t, 1) + CountFrom(patterns, t, k + 1)

\* re.I: the text is matched in lower case
_count_matches(patterns, text) == CountFrom(patterns, Lower(text), 1)

\* " ".join(s.split())
RECURSIVE Collapse(_)
Collapse(s) ==
    IF s = <<>> THEN <<>>
    ELSE IF Head(s) \in Whitespace THEN <<" ">> \o Collapse(LStrip(s))
    ELSE <<Head(s)>> \o Collapse(Tail(s))

_normalize_text(s) == Collapse(RStrip(LStrip(s)))

\* meta.get("source") and meta.get("text")
Groupable(meta) == meta.source # "" /\ meta.text # <<>>

\* the keys of src_bucket in the order the dictionary got them
RECURSIVE BucketKeys(_, _)
BucketKeys(metadata_list, seen) ==
    IF metadata_list = <<>> THEN <<>>
    ELSE LET meta == Head(metadata_list)
         IN  IF Groupable(meta) /\ meta.source \notin seen
             THEN <<meta.source>> \o BucketKeys(Tail(metadata_list), seen \cup {meta.source})
             ELSE BucketKeys(Tail(metadata_list), seen)

\* "\n\n".join(src_bucket[src])
RECURSIVE Combined(_, _)
Combined(metadata_list, src) ==
    IF metadata_list = <<>> THEN <<>>
    ELSE LET meta == Head(metadata_list)
             rest == Tail(metadata_list)
         IN  IF ~(Groupable(meta) /\ meta.source = src) THEN Combined(rest, src)
             ELSE IF \E i \in 1..Len(rest) : Groupable(rest[i]) /\ rest[i].source = src
             THEN meta.text \o <<"\n", "\n">> \o Combined(rest, src)
             ELSE meta.text

Signals(src, combined) ==
    [source |-> src,
     text |-> combined,
     procedural_score |-> _count_matches(STEP_PATTERNS, combined),
     positive_claims |-> _count_matches(POSITIVE_STATUS_PATTERNS, combined),
     negative_claims |-> _count_matches(NEGATIVE_STATUS_PATTERNS, combined),
     length |-> Len(_normalize_text(combined))]

\* the second loop of analyze_documents over the keys still to do
RECURSIVE AnalyzeBuckets(_, _)
AnalyzeBuckets(metadata_list, keys) ==
    IF keys = <<>> THEN <<>>
    ELSE <<Signals(Head(keys), Combined(metadata_list, Head(keys)))>>
         \o AnalyzeBuckets(metadata_list, Tail(keys))

\* the items of the result dictionary, in its order
analyze_documents(metadata_list) ==
    AnalyzeBuckets(metadata_list, BucketKeys(metadata_list, {}))

\* one thousand times procedural*10 + length/1000.0 + positive*5 - negative*2
score(sig) ==
    sig.procedural_score * 10000 + sig.length
        + sig.positive_claims * 5000 - sig.negative_claims * 2000

\* variant: an item goes in front of the items of its own score
InsertSorted_Unstable(sorted, x) ==
    LET n == Cardinality({i \in 1..Len(sorted) : score(sorted[i]) > score(x)})
    IN  SubSeq(sorted, 1, n) \o <<x>> \o SubSeq(sorted, n + 1, Len(sorted))

\* where a stable descending sort leaves x among the items before it
InsertSorted(sorted, x) ==
    LET n == Cardinality({i \in 1..Len(sorted) : score(sorted[i]) >= score(x)})
    IN  SubSeq(sorted, 1, n) \o <<x>> \o SubSeq(sorted, n + 1, Len(sorted))

\* scores.sort(reverse=True, key=lambda x: x[0])
RECURSIVE SortScores(_, _)
SortScores(sorted, todo) ==
    IF todo = <<>> THEN sorted
    ELSE SortScores(InsertSorted(sorted, Head(todo)), Tail(todo))

\* the signals in the order of ordered_sources; the first one is top_info
decide_authoritative_source(doc_signals) == SortScores(<<>>, doc_signals)

\* variant: the next slice starts on the last character of the previous one
RECURSIVE Slices_Overlap(_, _, _)
Slices_Overlap(src, text, max_snippet_chars) ==
    IF text = <<>> THEN <<>>
    ELSE IF Len(text) <= max_snippet_chars
    THEN <<[source |-> src, kind |-> "snippet", body |-> text]>>
    ELSE <<[source |-> src, kind |-> "snippet", body |-> SubSeq(text, 1, max_snippet_chars)]>>
         \o Slices_Overlap(src, SubSeq(text, max_snippet_chars, Len(text)), max_snippet_chars)

\* the while loop: "Source: src\n" + "\n" + text[start:start + max_snippet_chars]
RECURSIVE Slices(_, _, _)
Slices(src, text, max_snippet_chars) ==
    IF text = <<>> THEN <<>>
    ELSE IF Len(text) <= max_snippet_chars
    THEN <<[source |-> src, kind |-> "snippet", body |-> text]>>
    ELSE <<[source |-> src, kind |-> "snippet", body |-> SubSeq(text, 1, max_snippet_chars)]>>
         \o Slices(src, SubSeq(text, max_snippet_chars + 1, Len(text)), max_snippet_chars)

\* the loop over ordered_sources, from the i-th on; text is stripped first
RECURSIVE SourceBlocks(_, _, _)
SourceBlocks(ordered, i, max_snippet_chars) ==
    IF i > Len(ordered) THEN <<>>
    ELSE Slices(ordered[i].source, RStrip(LStrip(ordered[i].text)), max_snippet_chars)
         \o SourceBlocks(ordered, i + 1, max_snippet_chars)

\* "\n".join(summary_lines), field by field
SummaryBlock(user_question, top_info) ==
    [kind |-> "summary",
     procedural_score |-> top_info.procedural_score,
     length |-> top_info.length,
     query |-> user_question,
     top |-> top_info.source]

\* variant: only the records of the asked project are grouped
build_context_for_query_Filtered(metadata_list, user_question, project, max_snippet_chars) ==
    LET kept == IF project = "None" THEN metadata_list
                ELSE SelectSeq(metadata_list, LAMBDA m : m.project = <<"f", "o">>)
        ordered == decide_authoritative_source(analyze_documents(kept))
    IN  IF ordered = <<>> THEN <<>>
        ELSE <<SummaryBlock(user_question, ordered[1])>>
             \o SourceBlocks(ordered, 1, max_snippet_chars)

build_context_for_query(metadata_list, user_question, project, max_snippet_chars) ==
    LET ordered == decide_authoritative_source(analyze_documents(metadata_list))
    IN  IF ordered = <<>> THEN <<>>
        ELSE <<SummaryBlock(user_question, ordered[1])>>
             \o SourceBlocks(ordered, 1, max_snippet_chars)

----------------------------------------------------------------------------
(* Reconciliation alone: a chunk collection is put together record by record
   and handed to build_context_for_query *)

ChunkOf(f, t) ==
    [source |-> f, file_hash |-> "h1", text |-> t,
     project |-> IF f = "" THEN <<>> ELSE _extract_project_tag(FileName[f])]

Curl == <<"c", "u", "r", "l">>
GethPadded == <<" ", "G", "e", "t", "h", "\n">>
Paused == <<"p", "a", "u", "s", "e", "d">>
IsOpen == <<"i", "s", " ", "o", "p", "e", "n">>
Blank == <<" ", " ">>

\* the records a collection is made of; one has no source and one no text
ChunkPool ==
    {ChunkOf("docs/Guide.pdf", t) : t \in {Curl, GethPadded, Paused}}
        \cup {ChunkOf("docs/Fo_T.txt", t) : t \in {Curl, GethPadded}}
        \cup {ChunkOf("docs/sub/fo-faq.md", t) : t \in {IsOpen, Blank}}
        \cup {ChunkOf("", Curl), ChunkOf("docs/Guide.pdf", <<>>)}

Questions == {<<>>, <<"r", "p", "c", "?">>}
Projects == {"None", "fo"}

reasonFrame == <<dirExists, files, metadata, blob, added, removed, saves, metadata0, blob0,
                 syncRun, arg, pc, db, request, response, trace, chunkerVars, thr>>

AppendChunk(m) ==
    /\ Len(chunkRecords) < MaxChunks
    /\ chunkRecords' = Append(chunkRecords, m)
    /\ question' = <<>>
    /\ projectArg' = "None"
    /\ blocks' = <<>>
    /\ op' = "chunk"
    /\ UNCHANGED reasonFrame

\* one call for each state of the collection
Reconcile(q, p) ==
    /\ op # "reconcile"
    /\ question' = q
    /\ projectArg' = p
    /\ blocks' = build_context_for_query(chunkRecords, q, p, MaxSnippet)
    /\ op' = "reconcile"
    /\ UNCHANGED <<chunkRecords, reasonFrame>>

NextReason ==
    \/ \E m \in ChunkPool : AppendChunk(m)
    \/ \E q \in Questions : \E p \in Projects : Reconcile(q, p)

InitReason == Init /\ blob = MissingBlob

SpecReason == InitReason /\ [][NextReason]_vars

----------------------------------------------------------------------------
(* app.py: the documents table, the upload and delete handlers and the
   query handler send_message *)

NonEmptyMessage == "Please send a non-empty message."
NeedApiKey == "Please provide your Fireworks AI API key."
KnowledgeBaseEmpty == "The knowledge base is empty. Please add documents."
Apology == "Sorry, an error occurred: "

\* str(e) of the exception a fault raises inside the handler
ErrorText ==
    [fault \in {"db", "payload", "llm"} |->
        CASE fault = "db" -> "OperationalError: connection to server at db.internal refused"
          [] fault = "payload" -> "400 Bad Request: Failed to decode JSON object"
          [] fault = "llm" -> "LLM providers failed."]

\* jsonify({"response": f"Sorry, an error occurred: {e}"}), 500
ErrorResponse(fault) == [status |-> 500, kind |-> Apology, detail |-> ErrorText[fault]]

\* jsonify({"response": text})
FixedResponse(text) == [status |-> 200, kind |-> text, detail |-> "none"]

\* secure_filename gives a name without directories: the table holds one
\* document, a supported file directly under docs_dir
DbFiles == {"docs/Fo_T.txt"}

\* sync_db_to_local_tmp: every document with content is written to docs_dir
sync_db_to_local_tmp(table, fs) ==
    [f \in Files |-> IF table[f] # Absent THEN table[f] ELSE fs[f]]

\* variant: the credentials are looked at before the message
RequestChecks_KeyFirst(user_message, api_key, empty) ==
    IF api_key = <<>> THEN NeedApiKey
    ELSE IF user_message = <<>> THEN NonEmptyMessage
    ELSE IF empty THEN KnowledgeBaseEmpty
    ELSE "proceed"

\* the three early returns of send_message, in their order
RequestChecks(user_message, api_key, empty) ==
    IF user_message = <<>> THEN NonEmptyMessage
    ELSE IF api_key = <<>> THEN NeedApiKey
    ELSE IF empty THEN KnowledgeBaseEmpty
    ELSE "proceed"

\* generate_answer: one call of run_fireworks_dobby, any failure of it turned
\* into RuntimeError("LLM providers failed.")
\* calls: the posts made to the provider, in order.
\* variant: a failed call is made a second time before giving up
generate_answer_Retry(fault) ==
    IF fault = "llm"
    THEN [raised |-> TRUE, value |-> ErrorText["llm"], calls |-> <<"model", "model">>]
    ELSE [raised |-> FALSE, value |-> "answer", calls |-> <<"model">>]

generate_answer(fault) ==
    IF fault = "llm"
    THEN [raised |-> TRUE, value |-> ErrorText["llm"], calls |-> <<"model">>]
    ELSE [raised |-> FALSE, value |-> "answer", calls |-> <<"model">>]

\* the handler after sync and ingestion, on the store st they left:
\* [response, trace]
AfterIngest(req, st) ==
    IF req.fault = "payload"
    THEN [response |-> ErrorResponse("payload"), trace |-> <<"sync", "ingest", "parse">>]
    ELSE LET verdict == RequestChecks(RStrip(LStrip(req.message)), RStrip(LStrip(req.api_key)),
                                      index_is_empty(st))
             answer == generate_answer(req.fault)
         IN  IF verdict # "proceed"
             THEN [response |-> FixedResponse(verdict),
                   trace |-> <<"sync", "ingest", "parse", "check">>]
             ELSE [response |-> IF answer.raised THEN ErrorResponse("llm")
                                ELSE FixedResponse(answer.value),
                   trace |-> <<"sync", "ingest", "parse", "check", "reconcile", "prompt">>
                             \o answer.calls]

Messages == {<<>>, <<" ", "\n">>, <<"h", "i", " ">>}
ApiKeys == {<<>>, <<" ">>, <<"k">>}
Faults == {"none", "db", "payload", "llm"}

requestFrame == <<pc, chunkRecords, question, projectArg, blocks, syncRun, chunkerVars, thr>>

\* upload_file: the file is written to docs_dir, read, removed again, and
\* upserted in the table
UploadDoc(f, c) ==
    /\ dirExists
    /\ db' = [db EXCEPT ![f] = c]
    /\ files' = [files EXCEPT ![f] = Absent]
    /\ op' = "upload"
    /\ added' = <<>>
    /\ removed' = <<>>
    /\ saves' = 0
    /\ metadata0' = metadata
    /\ blob0' = blob
    /\ arg' = <<>>
    /\ UNCHANGED <<dirExists, metadata, blob, request, response, trace, requestFrame>>

\* delete_file: the row goes, docs_dir is not touched
DeleteDoc(f) ==
    /\ db[f] # Absent
    /\ db' = [db EXCEPT ![f] = Absent]
    /\ op' = "delete"
    /\ added' = <<>>
    /\ removed' = <<>>
    /\ saves' = 0
    /\ metadata0' = metadata
    /\ blob0' = blob
    /\ arg' = <<>>
    /\ UNCHANGED <<dirExists, files, metadata, blob, request, response, trace, requestFrame>>

\* send_message, from the sync to the response, for the request req
SendMessage(req) ==
    LET fs == sync_db_to_local_tmp(db, files)
        ingested == auto_ingest_if_empty(Store(metadata, blob, 0), TRUE, fs)
        r == IF req.fault = "db"
             THEN [st |-> Store(metadata, blob, 0), added |-> <<>>, removed |-> <<>>]
             ELSE ingested
        out == IF req.fault = "db"
               THEN [response |-> ErrorResponse("db"), trace |-> <<"sync">>]
               ELSE AfterIngest(req, r.st)
    IN  /\ Len(r.st.metadata) <= MaxRecords
        /\ request' = req
        /\ response' = out.response
        /\ trace' = out.trace
        /\ files' = IF req.fault = "db" THEN files ELSE fs
        /\ dirExists' = (dirExists \/ req.fault # "db")
        /\ metadata' = r.st.metadata
        /\ blob' = r.st.blob
        /\ saves' = r.st.saves
        /\ added' = r.added
        /\ removed' = r.removed
        /\ metadata0' = metadata
        /\ blob0' = blob
        /\ op' = "send"
        /\ arg' = <<>>
        /\ UNCHANGED <<db, requestFrame>>

NextRequest ==
    \/ \E f \in DbFiles : \E c \in GoodContents : UploadDoc(f, c)
    \/ \E f \in DbFiles : DeleteDoc(f)
    \/ \E m \in Messages : \E k \in ApiKeys : \E p \in Projects : \E x \in Faults :
          SendMessage([project |-> p, message |-> m, api_key |-> k, fault |-> x])

SpecRequest == Init /\ [][NextRequest]_vars

----------------------------------------------------------------------------
(* utils.py, chunk_text: one step for the call and one for each iteration of
   the while loop; offsets count from 0 as in the code *)

MaxText == 6
MaxChunkSize == 5

\* most iterations a call is followed for
MaxIterations == MaxText + 2

\* text.replace("\r\n", "\n")
RECURSIVE NormalizeNewlines(_)
NormalizeNewlines(t) ==
    IF t = <<>> THEN <<>>
    ELSE IF Len(t) >= 2 /\ t[1] = "\r" /\ t[2] = "\n" THEN <<"\n">> \o NormalizeNewlines(SubSeq(t, 3, Len(t)))
    ELSE <<Head(t)>> \o NormalizeNewlines(Tail(t))

\* t[from:to] of Python, for 0 <= from
Slice(t, from, to) ==
    SubSeq(t, from + 1, IF to > Len(t) THEN Len(t) ELSE to)

\* chunk.rfind("\n"): offset of the last line feed, -1 for none
RFindNewline(chunk) ==
    LET at == {i \in 1..Len(chunk) : chunk[i] = "\n"}
    IN  IF at = {} THEN -1 ELSE (CHOOSE i \in at : \A j \in at : j <= i) - 1

\* variant: a window is cut at its last line feed wherever that is
ShrinkThreshold_None(size) == 0

\* int(chunk_size * 0.4)
ShrinkThreshold(size) == (2 * size) \div 5

\* end of the window that starts at from: start + chunk_size, or the last
\* line feed of that window when it lies beyond the threshold
WindowEnd(t, from, size) ==
    LET last_nl == RFindNewline(Slice(t, from, from + size))
    IN  IF last_nl > ShrinkThreshold(size) THEN from + last_nl ELSE from + size

\* variant: the next window starts one character after the previous one ends
NextStart_Gap(end, lap) == end + 1

\* start = end - overlap, clamped at 0
NextStart(end, lap) == IF end - lap < 0 THEN 0 ELSE end - lap

chunkFrame == <<dirExists, files, metadata, blob, op, added, removed, saves, metadata0, blob0,
                syncRun, arg, pc, chunkRecords, question, projectArg, blocks, db, request,
                response, trace, thr>>

\* the call: a text of at most chunk_size characters is returned whole
ChunkCall(t, size, lap) ==
    /\ rawText' = t
    /\ chunk_size' = size
    /\ overlap' = lap
    /\ start' = 0
    /\ windows' = <<>>
    /\ IF Len(NormalizeNewlines(t)) <= size
       THEN chunkList' = <<NormalizeNewlines(t)>> /\ cpc' = "done"
       ELSE chunkList' = <<>> /\ cpc' = "loop"
    /\ UNCHANGED chunkFrame

\* one iteration of the while loop
ChunkStep ==
    LET t == NormalizeNewlines(rawText)
        end == WindowEnd(t, start, chunk_size)
        next == NextStart(end, overlap)
    IN  /\ cpc = "loop"
        /\ Len(windows) < MaxIterations
        /\ chunkList' = Append(chunkList, RStrip(LStrip(Slice(t, start, end))))
        /\ windows' = Append(windows, [start |-> start, end |-> end])
        /\ start' = next
        /\ cpc' = IF next >= Len(t) THEN "done" ELSE "loop"
        /\ UNCHANGED <<rawText, chunk_size, overlap, chunkFrame>>

TextAlphabet == {"a", "\n", "\r"}
Texts == UNION {[1..n -> TextAlphabet] : n \in 0..MaxText}

NextChunk ==
    \/ /\ cpc = "idle"
       /\ \E t \in Texts : \E size \in 1..MaxChunkSize : \E lap \in 0..(size - 1) :
             ChunkCall(t, size, lap)
    \/ ChunkStep

InitChunk == Init /\ blob = MissingBlob

SpecChunk == InitChunk /\ [][NextChunk]_vars

----------------------------------------------------------------------------
(* The store through its methods, the sync and a restart of the process *)

\* the process starts again: VectorStore(store_dir) over the meta.pkl left
Restart ==
    LET r == VectorStore_init(blob)
    IN  /\ op # "restart"
        /\ metadata' = r.metadata
        /\ op' = "restart"
        /\ arg' = <<>>
        /\ added' = <<>>
        /\ removed' = <<>>
        /\ saves' = 0
        /\ metadata0' = metadata
        /\ blob0' = blob
        /\ syncRun' = 0
        /\ UNCHANGED <<blob, dirExists, files, otherVars>>

\* the files written below docs_dir and the contents given to them
DiskFiles == {"docs/Guide.pdf", "docs/sub/fo-faq.md"}
DiskContents == {"v1", "v2", "unreadable"}

\* the file whose records are added by direct calls of add_texts
DirectFiles == {"docs/Fo_T.txt"}

NextDisk ==
    \/ \E f \in DiskFiles : \E c \in DiskContents : WriteFile(f, c)
    \/ \E f \in DiskFiles : DeleteFile(f)
    \/ Sync
    \/ \E f \in DirectFiles : \E c \in {"v1", "blank"} : StoreAdd(f, c)
    \/ \E S \in {<<>>} \cup {<<f>> : f \in Ingestible} : StoreRemove(S)
    \/ Restart

\* the store was constructed over a missing meta.pkl
InitDisk == Init /\ blob = MissingBlob

SpecDisk == InitDisk /\ [][NextDisk]_vars

----------------------------------------------------------------------------
(* Two requests inside auto_ingest_if_empty on the one store of the process.
   A step is one call of a VectorStore method with the thread's own reads
   and listings around it; the directory does not change while a thread is
   inside the sync. *)

AllIdle == \A t \in Threads : thr[t].pc = "idle"
Inside(t) == thr[t].pc \notin {"idle", "done"}

\* variables a thread step leaves alone
threadFrame == <<dirExists, files, added, removed, saves, syncRun, arg,
                 pc, chunkRecords, question, projectArg, blocks, db, request, response, trace,
                 chunkerVars>>

\* the store after a thread's call, and the thread's new position and locals
ThreadStep(t, st, next) ==
    /\ Len(st.metadata) <= MaxRecords
    /\ metadata' = st.metadata
    /\ blob' = st.blob
    /\ thr' = [thr EXCEPT ![t] = next]
    /\ op' = "thread"
    /\ metadata0' = IF AllIdle THEN metadata ELSE metadata0
    /\ blob0' = IF AllIdle THEN blob ELSE blob0
    /\ UNCHANGED threadFrame

\* where a thread goes when ingest_directory has returned: the next entry of
\* added_files, or out of the sync
AfterIngestDirectory(todo) == IF todo = <<>> THEN "done" ELSE "update"

\* entry of auto_ingest_if_empty: docs_path.exists() and index_is_empty()
ThreadBegin(t) ==
    /\ thr[t].pc = "idle"
    /\ ThreadStep(t, Store(metadata, blob, 0),
                  [IdleThread EXCEPT
                      !.conc = \E u \in Threads \ {t} : Inside(u),
                      !.pc = IF ~dirExists THEN "done"
                             ELSE IF index_is_empty(Store(metadata, blob, 0)) THEN "rebuild"
                             ELSE "snapshot"])

\* ingest_directory(docs_dir, vs, rebuild=True) up to its loop: the listing,
\* then metadata = [] and save()
ThreadClear(t) ==
    LET listed == all_files(Root, files)
    IN  /\ thr[t].pc = "rebuild"
        /\ IF listed = <<>>
           THEN ThreadStep(t, Store(metadata, blob, 0), [thr[t] EXCEPT !.pc = "done"])
           ELSE ThreadStep(t, save(Store(<<>>, blob, 0)),
                           [thr[t] EXCEPT !.pc = "ingest", !.found = listed])

\* one iteration of the loop of ingest_directory
ThreadIngest(t) ==
    /\ thr[t].pc = "ingest"
    /\ ThreadStep(t, IngestFile(Store(metadata, blob, 0), Head(thr[t].found), files),
                  [thr[t] EXCEPT
                      !.found = Tail(@),
                      !.pc = IF Tail(thr[t].found) # <<>> THEN "ingest"
                             ELSE AfterIngestDirectory(thr[t].todo)])

\* the incremental branch up to its first call on the store: existing_sources
\* read from the shared list, current_files, added_files, removed_files
ThreadSnapshot(t) ==
    LET old == existing_sources(metadata)
        cur == current_files(files)
        added_files ==
            SelectSeq(cur.keys, LAMBDA src : \/ src \notin DOMAIN old.hash
                                             \/ old.hash[src] # cur.hash[src])
        removed_files == SelectSeq(old.keys, LAMBDA src : src \notin SetOf(cur.keys))
    IN  /\ thr[t].pc = "snapshot"
        /\ ThreadStep(t, Store(metadata, blob, 0),
                      IF cur.raised THEN [thr[t] EXCEPT !.pc = "done"]
                      ELSE [thr[t] EXCEPT
                               !.todo = added_files,
                               !.gone = removed_files,
                               !.pc = IF removed_files # <<>> THEN "remove"
                                      ELSE AfterIngestDirectory(added_files)])

\* vectorstore.remove_by_sources(removed_files)
ThreadRemove(t) ==
    /\ thr[t].pc = "remove"
    /\ ThreadStep(t, remove_by_sources(Store(metadata, blob, 0), thr[t].gone),
                  [thr[t] EXCEPT !.pc = AfterIngestDirectory(thr[t].todo)])

\* one entry of added_files: remove_by_sources([f]), then ingest_directory
\* of the file's parent up to its loop
ThreadUpdate(t) ==
    LET f == Head(thr[t].todo)
        rest == Tail(thr[t].todo)
        listed == all_files(FileDir[f], files)
    IN  /\ thr[t].pc = "update"
        /\ ThreadStep(t, remove_by_sources(Store(metadata, blob, 0), <<f>>),
                      IF ~PathExists(FileDir[f], dirExists, files)
                      THEN [thr[t] EXCEPT !.pc = "done"]
                      ELSE IF listed = <<>>
                      THEN [thr[t] EXCEPT !.todo = rest, !.pc = AfterIngestDirectory(rest)]
                      ELSE [thr[t] EXCEPT !.todo = rest, !.found = listed, !.pc = "ingest"])

\* the files of the directory the two requests find, and their contents
ConcFiles == {"docs/Guide.pdf", "docs/Fo_T.txt"}

NextConc ==
    \/ \E f \in ConcFiles : \E c \in GoodContents : AllIdle /\ WriteFile(f, c)
    \/ \E f \in ConcFiles : AllIdle /\ DeleteFile(f)
    \/ AllIdle /\ Sync
    \/ \E t \in Threads : ThreadBegin(t)
    \/ \E t \in Threads : ThreadClear(t)
    \/ \E t \in Threads : ThreadIngest(t)
    \/ \E t \in Threads : ThreadSnapshot(t)
    \/ \E t \in Threads : ThreadRemove(t)
    \/ \E t \in Threads : ThreadUpdate(t)

InitConc == Init /\ blob = MissingBlob

SpecConc == InitConc /\ [][NextConc]_vars

----------------------------------------------------------------------------
(* Vocabulary of the properties *)

\* the supported files of the directory
Present ==
    {f \in Files : /\ files[f] # Absent
                   /\ \E i \in 1..Len(SupportedExts) : ExtOf(FileName[f]) = SupportedExts[i]}

Sources(md) == {md[i].source : i \in 1..Len(md)}

RecordsOf(md, src) == SelectSeq(md, LAMBDA m : m.source = src)

\* files whose extraction gives at least one chunk
Extractable == {f \in Present : files[f] \in GoodContents}

\* files whose extraction or fingerprinting raises
Failing == {f \in Present : files[f] \in {"corrupt", "unreadable"}}

SeqToBag(md) ==
    [r \in {md[i] : i \in 1..Len(md)} |-> Cardinality({i \in 1..Len(md) : md[i] = r})]

\* the records a single ingestion of file f in its current content gives
FreshRecordsOf(f) ==
    IF f \in Extractable
    THEN MetadatasOf(f, ChunksOf[files[f]], DigestOf[files[f]])
    ELSE <<>>

SyncDone == op = "sync"

\* C1: a sync that directly follows a sync of the same, unchanged directory
\* reports nothing added and nothing removed.
C1_IdempotentSync ==
    (SyncDone /\ syncRun = 2) => (added = <<>> /\ removed = <<>>)

\* C2: after a sync of an existing directory in which every file gives
\* chunks, the store holds the records, with their multiplicity, that a sync
\* of the same directory into an empty store gives.
C2_Convergence ==
    (SyncDone /\ dirExists /\ Present = Extractable)
        => SeqToBag(metadata)
             = SeqToBag(auto_ingest_if_empty(Store(<<>>, MissingBlob, 0), dirExists, files).st.metadata)

\* C3: after a sync of an existing directory the records of one source share
\* their digest and tag, and every record of a readable file carries the
\* digest of the file's current content and the tag of its name.
C3_NoStaleRecords ==
    (SyncDone /\ dirExists)
        => /\ \A i, j \in 1..Len(metadata) :
                 metadata[i].source = metadata[j].source
                    => /\ metadata[i].file_hash = metadata[j].file_hash
                       /\ metadata[i].project = metadata[j].project
           /\ \A i \in 1..Len(metadata) :
                 LET m == metadata[i]
                 IN  files[m.source] \in DOMAIN DigestOf
                        => /\ m.file_hash = DigestOf[files[m.source]]
                           /\ m.project = _extract_project_tag(FileName[m.source])

\* C4: an incremental sync whose added sources all give chunks leaves the
\* records of every other stored source as they were.
C4_TouchesOnlyChanged ==
    (SyncDone /\ metadata0 # <<>> /\ added # <<>> /\ SetOf(added) \subseteq Extractable)
        => \A src \in Sources(metadata0) \ (SetOf(added) \cup SetOf(removed)) :
              RecordsOf(metadata, src) = RecordsOf(metadata0, src)

\* digest recorded in the store for a source before the last operation
RecordedDigest(src) == LastHash(metadata0, src, Len(metadata0))

\* C5: on a non-empty store, added is exactly the present files that are
\* not stored or whose digest differs from the stored one, removed is exactly
\* the stored sources that are not present, and the two are disjoint.
C5_DiffReport ==
    (SyncDone /\ metadata0 # <<>> /\ dirExists)
        => /\ SetOf(added) =
                {f \in Present : \/ f \notin Sources(metadata0)
                                 \/ files[f] = "unreadable"
                                 \/ DigestOf[files[f]] # RecordedDigest(f)}
           /\ SetOf(removed) = Sources(metadata0) \ Present
           /\ SetOf(added) \cap SetOf(removed) = {}

\* C6: sync never reports as added a file that gave no chunks or whose
\* extraction failed.
C6_SkippedNotAdded ==
    SyncDone => \A f \in SetOf(added) : f \in Extractable

\* C7: when a file of the directory fails, every other file that gives
\* chunks has its records in the store when sync returns.
C7_FailuresContained ==
    (SyncDone /\ dirExists /\ Failing # {})
        => \A f \in Extractable : RecordsOf(metadata, f) # <<>>

RECURSIVE Concat(_, _)
\* the records of the files of a list, file after file
Concat(todo, i) ==
    IF i > Len(todo) THEN <<>> ELSE FreshRecordsOf(todo[i]) \o Concat(todo, i + 1)

\* C8: a sync that starts on an empty store reports every present supported
\* file once as added and nothing as removed, and leaves in the store, and in
\* the blob when a file was found, exactly the records of the files that give
\* chunks, taken in the order of the report.
C8_FullRebuild ==
    (SyncDone /\ metadata0 = <<>>)
        => /\ SetOf(added) = Present
           /\ Len(added) = Cardinality(Present)
           /\ removed = <<>>
           /\ metadata = Concat(added, 1)
           /\ Present # {} => blob = [state |-> "ok", data |-> metadata]

C8_Witness ==
    /\ SyncDone
    /\ metadata0 = <<>>
    /\ blob0 = CorruptBlob
    /\ Len(added) = 3
    /\ Extractable # {}
    /\ Extractable # Present
    /\ Len(metadata) >= 3

\* C9: a sync that starts on a non-empty store and reports neither an added
\* nor a removed source leaves the record list and the blob as they were and
\* writes nothing.
C9_NoChangeNoMutation ==
    (SyncDone /\ metadata0 # <<>> /\ added = <<>> /\ removed = <<>>)
        => /\ metadata = metadata0
           /\ blob = blob0
           /\ saves = 0

C9_Witness ==
    /\ SyncDone
    /\ dirExists
    /\ metadata0 # <<>>
    /\ Cardinality(Present) >= 2
    /\ \A f \in Present : files[f] # "unreadable"
    /\ added = <<>>
    /\ removed = <<>>

RECURSIVE Without(_, _)
\* a record list with the records of the given sources deleted
Without(md, S) ==
    IF md = <<>> THEN <<>>
    ELSE IF Head(md).source \in S THEN Without(Tail(md), S)
    ELSE <<Head(md)>> \o Without(Tail(md), S)

\* C10: after remove_by_sources(S) no record of a source of S is left and the
\* other records are all kept in their order; with S empty or the store
\* empty nothing changes and nothing is written.
C10_RemoveBySources ==
    op = "remove"
        => /\ \A i \in 1..Len(metadata) : metadata[i].source \notin SetOf(arg)
           /\ metadata = Without(metadata0, SetOf(arg))
           /\ (arg = <<>> \/ metadata0 = <<>>)
                => (metadata = metadata0 /\ blob = blob0 /\ saves = 0)

C10_Witness ==
    /\ op = "remove"
    /\ Len(arg) = 2
    /\ arg[1] # arg[2]
    /\ SetOf(arg) \subseteq Sources(metadata0)
    /\ Len(metadata0) >= 4
    /\ metadata # <<>>
    /\ metadata0[1].source \in SetOf(arg)
    /\ metadata0[2].source \notin SetOf(arg)
    /\ metadata0[Len(metadata0)].source \notin SetOf(arg)

\* C11: add_texts with no chunks leaves the record list and the blob as they
\* were and writes nothing; otherwise the new records follow the old list in
\* the given order and the blob holds the whole new list.
C11_AddTexts ==
    op = "add"
        => IF arg = <<>>
           THEN metadata = metadata0 /\ blob = blob0 /\ saves = 0
           ELSE /\ Len(metadata) = Len(metadata0) + Len(arg)
                /\ \A i \in 1..Len(metadata0) : metadata[i] = metadata0[i]
                /\ \A i \in 1..Len(arg) : metadata[Len(metadata0) + i] = arg[i]
                /\ blob = [state |-> "ok", data |-> metadata]

C11_Witness ==
    /\ op = "add"
    /\ Len(arg) = 2
    /\ Len(metadata0) >= 2
    /\ metadata0[1].source # arg[1].source

\* C14: a sync while docs_dir does not exist reports nothing added and
\* nothing removed and leaves the record list and the blob as they were.
C14_MissingDirectory ==
    (SyncDone /\ ~dirExists)
        => /\ added = <<>>
           /\ removed = <<>>
           /\ metadata = metadata0
           /\ blob = blob0
           /\ saves = 0

C14_Witness ==
    /\ SyncDone
    /\ ~dirExists
    /\ Len(metadata0) >= 2

\* C12: constructing the store over a missing or unloadable blob succeeds
\* with an empty record list, and an add or a remove that follows on such a
\* blob completes with the list and the blob it should give.
C12_ConstructionNeverFails ==
    /\ pc # "failed"
    /\ (op = "construct" /\ pc = "idle" /\ blob.state # "ok") => metadata = <<>>
    /\ (op = "add" /\ pc = "idle" /\ blob0.state # "ok" /\ arg # <<>>)
          => (metadata = metadata0 \o arg /\ blob = [state |-> "ok", data |-> metadata])
    /\ (op = "remove" /\ pc = "idle" /\ blob0.state # "ok")
          => metadata = Without(metadata0, SetOf(arg))

C12_Witness ==
    /\ op = "construct"
    /\ blob = CorruptBlob
    /\ pc = "idle"
    /\ metadata = <<>>

\* the list a mutation in progress is about to persist
MutationTarget ==
    IF op = "add" THEN metadata0 \o arg ELSE Without(metadata0, SetOf(arg))

\* C13: after a crash inside an add or a remove on a store whose blob held
\* records, the blob is the one from before the mutation or holds the list
\* the mutation produced.
C13_CrashSafe ==
    (op \in {"add", "remove"} /\ pc = "down" /\ blob0.state = "ok" /\ blob0.data # <<>>)
        => \/ blob = blob0
           \/ blob = [state |-> "ok", data |-> MutationTarget]

\* the sources build_context_for_query groups, in the order they first appear
GroupedSources == BucketKeys(chunkRecords, {})

\* where the signals of source src stand in sigs
PositionOf(sigs, src) == CHOOSE i \in 1..Len(sigs) : sigs[i].source = src

\* a ranks before b under the signals sigs, given in the order the sources
\* first appear: higher score, or the same score and seen first
RanksBefore(sigs, a, b) ==
    LET i == PositionOf(sigs, a)
        j == PositionOf(sigs, b)
    IN  \/ score(sigs[i]) > score(sigs[j])
        \/ score(sigs[i]) = score(sigs[j]) /\ i < j

\* C15: the blocks of a context follow the sources by descending score, two
\* sources of equal score in the order they first appear in the collection,
\* and the summary names as top document the source that ranks before all
\* the others.
C15_Ranking ==
    (op = "reconcile" /\ blocks # <<>>) =>
        LET sigs == analyze_documents(chunkRecords)
            keys == {sigs[i].source : i \in 1..Len(sigs)}
        IN  /\ blocks[1].kind = "summary"
            /\ blocks[1].top \in keys
            /\ \A src \in keys \ {blocks[1].top} : RanksBefore(sigs, blocks[1].top, src)
            /\ \A i, j \in 2..Len(blocks) :
                  (i < j /\ blocks[i].source # blocks[j].source)
                      => RanksBefore(sigs, blocks[i].source, blocks[j].source)

C15_Witness ==
    /\ op = "reconcile"
    /\ Len(GroupedSources) = 3
    /\ blocks[1].top # GroupedSources[1]
    /\ LET sigs == analyze_documents(chunkRecords)
           sc(src) == score(sigs[PositionOf(sigs, src)])
       IN  /\ \E i, j \in 2..Len(blocks) :
                 /\ i < j
                 /\ blocks[i].source # blocks[j].source
                 /\ sc(blocks[i].source) = sc(blocks[j].source)
           /\ \E i \in 2..Len(blocks) : sc(blocks[i].source) < sc(blocks[1].top)

\* the slice bodies of one source, put together in the order of the blocks
RECURSIVE BodiesOf(_, _)
BodiesOf(bs, src) ==
    IF bs = <<>> THEN <<>>
    ELSE IF Head(bs).kind = "snippet" /\ Head(bs).source = src
    THEN Head(bs).body \o BodiesOf(Tail(bs), src)
    ELSE BodiesOf(Tail(bs), src)

\* C16 as stated: the slice bodies of every grouped source give back its
\* concatenated text exactly.
C16_ExactText ==
    op = "reconcile" =>
        \A src \in SetOf(GroupedSources) :
            BodiesOf(blocks, src) = Combined(chunkRecords, src)

\* C16: a context is empty when no record can be grouped; otherwise it is
\* the summary followed by snippets only, the snippets of one source are
\* next to each other, each body holds 1 to max_snippet_chars characters and
\* every body but the last of its source holds max_snippet_chars, and the
\* bodies of a source give back its concatenated text without the blanks at
\* its two ends (none at all for a text of blanks).
C16_Composition ==
    op = "reconcile" =>
        /\ (blocks = <<>>) = (GroupedSources = <<>>)
        /\ blocks # <<>> => blocks[1].kind = "summary"
        /\ \A i \in 2..Len(blocks) :
              /\ blocks[i].kind = "snippet"
              /\ blocks[i].source \in SetOf(GroupedSources)
              /\ Len(blocks[i].body) \in 1..MaxSnippet
              /\ (i < Len(blocks) /\ blocks[i + 1].source = blocks[i].source)
                    => Len(blocks[i].body) = MaxSnippet
        /\ \A i, j \in 2..Len(blocks) :
              (i < j /\ blocks[i].source = blocks[j].source)
                  => \A k \in i..j : blocks[k].source = blocks[i].source
        /\ \A src \in SetOf(GroupedSources) :
              BodiesOf(blocks, src) = RStrip(LStrip(Combined(chunkRecords, src)))

C16_Witness ==
    /\ op = "reconcile"
    /\ \E src \in SetOf(GroupedSources) :
          /\ Cardinality({i \in 2..Len(blocks) : blocks[i].source = src}) >= 3
          /\ BodiesOf(blocks, src) # Combined(chunkRecords, src)
    /\ \E src \in SetOf(GroupedSources) : BodiesOf(blocks, src) = <<>>

\* characters of text in a context
RECURSIVE ContextChars(_)
ContextChars(bs) ==
    IF bs = <<>> THEN 0
    ELSE (IF Head(bs).kind = "snippet" THEN Len(Head(bs).body) ELSE 0) + ContextChars(Tail(bs))

\* C17: whatever the collection, the text of a context stays within the one
\* size limit build_context_for_query is given, max_snippet_chars.
C17_SizeBounded ==
    op = "reconcile" => ContextChars(blocks) <= MaxSnippet

\* C20: the context build_context_for_query returns for a project is the
\* one it returns for the same collection and question without a project.
C20_ProjectInert ==
    (op = "reconcile" /\ projectArg # "None") =>
        blocks = build_context_for_query(chunkRecords, question, "None", MaxSnippet)

C20_Witness ==
    /\ op = "reconcile"
    /\ projectArg = "fo"
    /\ \E i \in 2..Len(blocks) : blocks[i].source = "docs/Guide.pdf"
    /\ \E i \in 2..Len(blocks) : blocks[i].source = "docs/Fo_T.txt"

\* message and credentials of the last request as the handler reads them
TrimmedMessage == RStrip(LStrip(request.message))
TrimmedKey == RStrip(LStrip(request.api_key))

\* reconciliation, prompt composition or the model call was reached
Answering == \E i \in 1..Len(trace) : trace[i] \in {"reconcile", "prompt", "model"}

\* C18 as stated: reconciliation and the model call are reached only for a
\* non-blank message, non-blank credentials and a non-empty store, and every
\* request with a blank message, else blank credentials, else an empty store
\* gets the fixed response of its case.
C18_ShortCircuits ==
    op = "send" =>
        /\ Answering => (TrimmedMessage # <<>> /\ TrimmedKey # <<>> /\ metadata # <<>>)
        /\ TrimmedMessage = <<>> => response = FixedResponse(NonEmptyMessage)
        /\ (TrimmedMessage # <<>> /\ TrimmedKey = <<>>) => response = FixedResponse(NeedApiKey)
        /\ (TrimmedMessage # <<>> /\ TrimmedKey # <<>> /\ metadata = <<>>)
              => response = FixedResponse(KnowledgeBaseEmpty)

\* the request got as far as the checks: sync, ingestion and the parsing of
\* the payload did not raise
ReachedChecks == \E i \in 1..Len(trace) : trace[i] = "check"

\* C18: reconciliation and the model call are reached only for a non-blank
\* message, non-blank credentials and a non-empty store; a request that gets
\* as far as the checks with a blank message, else blank credentials, else an
\* empty store gets the fixed response of its case and reaches neither; a
\* request that fails before the checks gets the error response and reaches
\* neither.
C18_ShortCircuitsReached ==
    op = "send" =>
        /\ Answering => (TrimmedMessage # <<>> /\ TrimmedKey # <<>> /\ metadata # <<>>)
        /\ ReachedChecks =>
              /\ TrimmedMessage = <<>> => response = FixedResponse(NonEmptyMessage)
              /\ (TrimmedMessage # <<>> /\ TrimmedKey = <<>>)
                    => response = FixedResponse(NeedApiKey)
              /\ (TrimmedMessage # <<>> /\ TrimmedKey # <<>> /\ metadata = <<>>)
                    => response = FixedResponse(KnowledgeBaseEmpty)
        /\ ~ReachedChecks => (response.status = 500 /\ ~Answering)

C18_Witness ==
    /\ op = "send"
    /\ ReachedChecks
    /\ request.message # <<>>
    /\ TrimmedMessage = <<>>
    /\ TrimmedKey = <<>>
    /\ metadata # <<>>
    /\ response = FixedResponse(NonEmptyMessage)

\* C19: the response of a request that failed carries nothing of the
\* exception that made it fail.
C19_UserSafeErrors ==
    (op = "send" /\ response.status = 500) => response.detail = "none"

\* the text chunk_text works on
ChunkedText == NormalizeNewlines(rawText)

\* C21: for a text longer than chunk_size the first window starts at offset
\* 0, every next window starts at or before the end of the one before it,
\* every chunk is its window of the newline-normalized text without the
\* blanks at its two ends, and when chunk_text returns the last window
\* reaches the end of the text, so that every offset of the text lies in a
\* window.
C21_ChunkCoverage ==
    (cpc \in {"loop", "done"} /\ Len(ChunkedText) > chunk_size) =>
        /\ Len(chunkList) = Len(windows)
        /\ windows # <<>> => windows[1].start = 0
        /\ \A i \in 1..Len(windows) :
              /\ windows[i].start < windows[i].end
              /\ i > 1 => windows[i].start <= windows[i - 1].end
              /\ chunkList[i]
                    = RStrip(LStrip(Slice(ChunkedText, windows[i].start, windows[i].end)))
        /\ cpc = "done" =>
              /\ windows # <<>>
              /\ windows[Len(windows)].end >= Len(ChunkedText)
              /\ \A k \in 0..(Len(ChunkedText) - 1) :
                    \E i \in 1..Len(windows) : windows[i].start <= k /\ k < windows[i].end

C21_Witness ==
    /\ cpc = "done"
    /\ Len(ChunkedText) > chunk_size
    /\ ChunkedText # rawText
    /\ Len(windows) >= 3
    /\ \E i \in 1..Len(windows) :
          /\ windows[i].end - windows[i].start < chunk_size
          /\ windows[i].end < Len(ChunkedText)
          /\ Len(chunkList[i]) < windows[i].end - windows[i].start
    /\ \E i \in 2..Len(windows) : windows[i].start < windows[i - 1].end

\* C26: with overlap at most floor(0.4 * chunk_size) every iteration of the
\* loop leaves start larger than it found it, whether or not the window was
\* cut at a line feed, and the loop ends within len(text) iterations.
C26_TerminatesAsUsed ==
    (cpc \in {"loop", "done"} /\ 5 * overlap <= 2 * chunk_size) =>
        /\ \A i \in 1..Len(windows) :
              (IF i < Len(windows) THEN windows[i + 1].start ELSE start) > windows[i].start
        /\ Len(windows) <= Len(ChunkedText)
        /\ cpc = "loop" => Len(windows) < Len(ChunkedText)

C26_Witness ==
    /\ cpc = "done"
    /\ 5 * overlap <= 2 * chunk_size
    /\ overlap = 2
    /\ Len(windows) >= 3
    /\ \E i \in 1..Len(windows) :
          /\ windows[i].end < Len(ChunkedText)
          /\ windows[i].end - windows[i].start = ShrinkThreshold(chunk_size) + 1

\* C27: for every chunk_size and every overlap from 0 to chunk_size - 1 the
\* loop of chunk_text never comes back to a value of start it has already
\* worked on; the loop has no other state, so coming back means running
\* forever.
C27_Terminates ==
    cpc = "loop" => \A i \in 1..Len(windows) : windows[i].start # start

\* C22: a query request posts to the external model at most once; when that
\* post fails or times out the request ends with the error response, and no
\* second post is made.
C22_OneModelCall ==
    op = "send" =>
        /\ Cardinality({i \in 1..Len(trace) : trace[i] = "model"}) <= 1
        /\ (request.fault = "llm" /\ \E i \in 1..Len(trace) : trace[i] = "model")
              => /\ response = ErrorResponse("llm")
                 /\ trace[Len(trace)] = "model"

C22_Witness ==
    /\ op = "send"
    /\ request.fault = "llm"
    /\ Cardinality({i \in 1..Len(trace) : trace[i] = "model"}) = 1
    /\ response.status = 500

\* C24: after every completed sync of an existing directory, the sources of
\* the store's records are exactly the supported files of the directory that
\* yield at least one chunk.
C24_SourcesMatch ==
    (SyncDone /\ dirExists) => Sources(metadata) = Extractable

\* C25: after any sequence of completed add_texts, remove_by_sources and sync
\* calls on a store constructed over a missing or a loadable meta.pkl, a
\* meta.pkl that exists unpickles to exactly the in-memory record list, and
\* constructing the store again gives the same list.
C25_MemoryMatchesDisk ==
    /\ blob.state # "corrupt"
    /\ blob.state = "ok" =>
          /\ blob.data = metadata
          /\ VectorStore_init(blob) = [raised |-> FALSE, metadata |-> metadata]

C25_Witness ==
    /\ op = "restart"
    /\ blob.state = "ok"
    /\ Len(metadata) >= 2
    /\ metadata = metadata0
    /\ \E i, j \in 1..Len(metadata) : metadata[i].source # metadata[j].source

\* C23: when two requests have run the sync concurrently on the shared store
\* over the same unchanged directory and both have finished, the store holds
\* the records, with their multiplicity, that one sync alone gives from the
\* store the two found.
C23_ConcurrentSyncsConverge ==
    ((\A t \in Threads : thr[t].pc = "done") /\ (\E t \in Threads : thr[t].conc))
        => SeqToBag(metadata)
             = SeqToBag(auto_ingest_if_empty(Store(metadata0, blob0, 0), dirExists, files).st.metadata)

====
